---- MODULE Spec2Model ----
(***************************************************************************)
(* KernelSU mount propagation hook: a kretprobe on attach_recursive_mnt    *)
(* whose entry handler clears MNT_SHARED on the destination mount and      *)
(* whose return handler writes the captured flags back.                    *)
(*                                                                         *)
(* Three revisions of mount_hook.c are modelled:                           *)
(*   - kernel/mount_hook.c   pause flag, destination null check   (Spec)   *)
(*   - unnamed/part_001      pause flag, kallsyms lookup in init            *)
(*   - unnamed/part_000      zygote latch and captured device name         *)
(* Every hooked invocation is a frame with a program counter; the handlers *)
(* take no lock, so each access to shared memory is a step of its own.     *)
(***************************************************************************)
EXTENDS Integers, Sequences, FiniteSets, TLC

\* ------------------------------------------------------------------ bounds
\* Concurrent invocations followed step by step.
NFrames == 2
\* Largest missed count that is followed (nmissed is an unbounded counter).
MaxMissed == 2

Frames == 1..NFrames

\* ------------------------------------------------------- program constants
\* kretprobe.maxactive: the number of per-invocation instances.
maxactive == 64
\* The shared-propagation bit of mnt_flags.
MNT_SHARED == 4096
\* Another bit of mnt_flags (0x10), one the mechanism never looks at.
MNT_OTHER == 2 * 2 * 2 * 2
\* errno values returned by the failing paths of init.
ENOENT == 2
EINVAL == 22
\* sizeof(ksu_modules_devname)
DEVNAME_SIZE == 256
\* the length given to strncmp for the loop-device prefix
LOOP_PREFIX_LEN == 15

Slots == 1..maxactive

NULL == "NULL"
\* Mount entries of the running kernel. m1 and m2 are used as destinations.
Mounts == {"m1", "m2", "m3", "m4", "m5"}
DestMounts == {"m1", "m2"}
TouchedMounts == {"m1"}

LoopPrefix == <<"/", "d", "e", "v", "/", "b", "l", "o", "c", "k", "/", "l", "o", "o", "p">>

\* mnt_devname of each mount: a char pointer, <<>> for a null pointer and
\* <<s>> for a pointer to the string s (a sequence of characters).
mnt_devname(m) ==
    CASE m = "m1" -> << <<"t", "m", "p", "f", "s">> >>
      [] m = "m2" -> << <<"p", "r", "o", "c">> >>
      [] m = "m3" -> << LoopPrefix \o <<"7">> >>
      [] m = "m4" -> << LoopPrefix \o <<"8">> >>
      [] OTHER    -> << >>

\* ------------------------------------------------------------ bit helpers
HasBit(v, b) == (v \div b) % 2 = 1
ClearBit(v, b) == IF HasBit(v, b) THEN v - b ELSE v
FlipBit(v, b) == IF HasBit(v, b) THEN v - b ELSE v + b

\* The mount table when the module is loaded: m1 is shared (SHARED|0x10),
\* the others are private.
BootFlags == [m \in Mounts |-> IF m = "m1" THEN MNT_SHARED + MNT_OTHER ELSE MNT_OTHER]

\* ------------------------------------------------------------- C strings
Take(s, n) == SubSeq(s, 1, IF Len(s) < n THEN Len(s) ELSE n)
\* strncmp(a, b, n) == 0
StrncmpEq(a, b, n) == Take(a, n) = Take(b, n)
\* strcmp(a, b) == 0
StrcmpEq(a, b) == a = b
\* strncpy(buf, s, n) followed by buf[n] = '\0': the string left in buf
Strncpy(s, n) == Take(s, n)

VARIABLES
    kprobes,      \* CONFIG_KPROBES / HAVE_KPROBES of the build
    symbol_found, \* whether kallsyms knows attach_recursive_mnt
    hook,         \* attach_recursive_mnt_krp: "none", "registered", "failed", "unregistered"
    init_ret,     \* {} before ksu_mount_hook_init returned, then {its return value}
    exit_state,   \* whether ksu_mount_hook_exit ran and the missed count it warned about (0: no warning)
    ksu_mount_propagation_paused,
    last_pause,   \* <<>> before any ksu_pause_mount_propagation call, then <<its last argument>> (history)
    ksu_zygote_started,
    ksu_modules_devname_initialized,
    ksu_modules_devname,
    mnt_flags,    \* mnt.mnt_flags of every mount
    free_instances, \* the kretprobe's free instances, head first
    nmissed,      \* attach_recursive_mnt_krp.nmissed
    ri_data,      \* ri->data of every instance: struct ksu_attach_mnt_state
    pc,           \* where each frame is
    fr,           \* each frame's arguments, instance and registers
    nested        \* instances held by further invocations with a null destination, innermost last

vars == <<kprobes, symbol_found, hook, init_ret, exit_state,
          ksu_mount_propagation_paused, last_pause, ksu_zygote_started,
          ksu_modules_devname_initialized, ksu_modules_devname,
          mnt_flags, free_instances, nmissed, ri_data, pc, fr, nested>>

ctl_vars == <<ksu_mount_propagation_paused, last_pause, ksu_zygote_started,
              ksu_modules_devname_initialized, ksu_modules_devname>>
life_vars == <<kprobes, symbol_found, hook, init_ret, exit_state>>

\* struct ksu_attach_mnt_state, zeroed
ZeroState == [dest_mnt |-> NULL, original_flags |-> 0, spoofed |-> FALSE]

\* A frame that is not inside attach_recursive_mnt.
\*   ri      the kretprobe instance it holds, 0 for none
\*   path    the exit entry logic took (history): "" while it runs, then
\*           "inactive", "scope", "null", "private" or "spoof"
\*   ld      the value of dest_mnt->mnt.mnt_flags the handler last loaded, <<>> for none
\*   pre     the live flags right before the handler's clearing store (history)
IdleFrame == [source_mnt |-> NULL, dest_mnt |-> NULL, ri |-> 0,
              path |-> "", ld |-> << >>, pre |-> << >>]

Init ==
    /\ kprobes \in BOOLEAN
    /\ symbol_found \in BOOLEAN
    /\ hook = "none"
    /\ init_ret = {}
    /\ exit_state = [done |-> FALSE, warned |-> 0]
    /\ ksu_mount_propagation_paused = 0
    /\ last_pause = << >>
    /\ ksu_zygote_started = 0
    /\ ksu_modules_devname_initialized = 0
    /\ ksu_modules_devname = << >>
    /\ mnt_flags = BootFlags
    /\ free_instances = << >>
    /\ nmissed = 0
    /\ ri_data = [s \in Slots |-> ZeroState]
    /\ pc = [f \in Frames |-> "idle"]
    /\ fr = [f \in Frames |-> IdleFrame]
    /\ nested = << >>

\* ---------------------------------------------------------------- helpers
SetState(s, st) == [ri_data EXCEPT ![s] = st]
SetFrame(f, r) == [fr EXCEPT ![f] = r]
Goto(f, l) == pc' = [pc EXCEPT ![f] = l]

\* The values a read of dest_mnt->mnt.mnt_flags may yield in frame f: the
\* access is a plain load racing with plain stores of other frames, so the
\* build may load from memory or reuse the value it loaded before.
Loads(f) == {mnt_flags[fr[f].dest_mnt]} \cup {fr[f].ld[i] : i \in DOMAIN fr[f].ld}

\* ----------------------------------------------------- registration, exit
\* register_kretprobe(&attach_recursive_mnt_krp) with .kp.symbol_name set:
\* the values it may return.
register_by_name == IF symbol_found THEN {0, 0 - EINVAL} ELSE {0 - ENOENT}
\* register_kretprobe with .kp.addr set by the caller.
register_by_addr == {0, 0 - EINVAL}

\* What a call of register_kretprobe returning ret leaves behind.
Registered(ret) ==
    /\ init_ret' = {ret}
    /\ hook' = IF ret = 0 THEN "registered" ELSE "failed"
    /\ free_instances' = IF ret = 0 THEN [i \in 1..maxactive |-> i] ELSE << >>

\* ksu_mount_hook_init reporting success whatever register_kretprobe returned.
ksu_mount_hook_init_ret0 ==
    /\ init_ret = {}
    /\ IF kprobes
       THEN \E ret \in register_by_name :
               /\ init_ret' = {0}
               /\ hook' = IF ret = 0 THEN "registered" ELSE "failed"
               /\ free_instances' = IF ret = 0 THEN [i \in 1..maxactive |-> i] ELSE << >>
       ELSE /\ init_ret' = {0}
            /\ UNCHANGED <<hook, free_instances>>
    /\ UNCHANGED <<kprobes, symbol_found, exit_state, ctl_vars, mnt_flags,
                   nmissed, ri_data, pc, fr, nested>>

\* int ksu_mount_hook_init(void), kernel/mount_hook.c
ksu_mount_hook_init ==
    /\ init_ret = {}
    /\ IF kprobes
       THEN \E ret \in register_by_name : Registered(ret)
       ELSE /\ init_ret' = {0}
            /\ UNCHANGED <<hook, free_instances>>
    /\ UNCHANGED <<kprobes, symbol_found, exit_state, ctl_vars, mnt_flags,
                   nmissed, ri_data, pc, fr, nested>>

\* ksu_mount_hook_init of unnamed/part_001 reporting success whatever
\* register_kretprobe returned.
ksu_mount_hook_init_lookup_ret0 ==
    /\ init_ret = {}
    /\ IF kprobes
       THEN IF ~symbol_found
            THEN /\ init_ret' = {0 - ENOENT}
                 /\ UNCHANGED <<hook, free_instances>>
            ELSE \E ret \in register_by_addr :
                    /\ init_ret' = {0}
                    /\ hook' = IF ret = 0 THEN "registered" ELSE "failed"
                    /\ free_instances' = IF ret = 0 THEN [i \in 1..maxactive |-> i] ELSE << >>
       ELSE /\ init_ret' = {0}
            /\ UNCHANGED <<hook, free_instances>>
    /\ UNCHANGED <<kprobes, symbol_found, exit_state, ctl_vars, mnt_flags,
                   nmissed, ri_data, pc, fr, nested>>

\* int ksu_mount_hook_init(void), unnamed/part_001: kallsyms_lookup_name,
\* then register_kretprobe on the address found.
ksu_mount_hook_init_lookup ==
    /\ init_ret = {}
    /\ IF kprobes
       THEN IF ~symbol_found
            THEN /\ init_ret' = {0 - ENOENT}
                 /\ UNCHANGED <<hook, free_instances>>
            ELSE \E ret \in register_by_addr : Registered(ret)
       ELSE /\ init_ret' = {0}
            /\ UNCHANGED <<hook, free_instances>>
    /\ UNCHANGED <<kprobes, symbol_found, exit_state, ctl_vars, mnt_flags,
                   nmissed, ri_data, pc, fr, nested>>

\* The labels of a frame that is inside the entry handler.
InEntryHandler == {"entry", "e_check", "e_capture", "e_load", "e_store",
                   "a_copy", "a_set", "a_scope"}

\* void ksu_mount_hook_exit(void). unregister_kretprobe returns once no
\* handler of the probe is running any more (handlers run with preemption
\* off and it waits for a grace period); calls that are in the original body
\* it does not wait for.
ksu_mount_hook_exit ==
    /\ init_ret # {}
    /\ ~exit_state.done
    /\ \A f \in Frames : pc[f] \notin InEntryHandler
    /\ IF kprobes
       THEN /\ hook' = IF hook = "registered" THEN "unregistered" ELSE hook
            /\ free_instances' = << >>
            /\ exit_state' = [done |-> TRUE, warned |-> IF nmissed > 0 THEN nmissed ELSE 0]
       ELSE /\ exit_state' = [done |-> TRUE, warned |-> 0]
            /\ UNCHANGED <<hook, free_instances>>
    /\ UNCHANGED <<kprobes, symbol_found, init_ret, ctl_vars, mnt_flags,
                   nmissed, ri_data, pc, fr, nested>>

\* ksu_pause_mount_propagation counting the calls with pause = true.
ksu_pause_mount_propagation_adds(pause) ==
    /\ ksu_mount_propagation_paused' = IF pause THEN ksu_mount_propagation_paused + 1 ELSE 0
    /\ last_pause' = <<pause>>
    /\ UNCHANGED <<life_vars, ksu_zygote_started, ksu_modules_devname_initialized,
                   ksu_modules_devname, mnt_flags, free_instances,
                   nmissed, ri_data, pc, fr, nested>>

\* ksu_pause_mount_propagation with the two branches swapped.
ksu_pause_mount_propagation_swapped(pause) ==
    /\ ksu_mount_propagation_paused' = IF pause THEN 0 ELSE 1
    /\ last_pause' = <<pause>>
    /\ UNCHANGED <<life_vars, ksu_zygote_started, ksu_modules_devname_initialized,
                   ksu_modules_devname, mnt_flags, free_instances,
                   nmissed, ri_data, pc, fr, nested>>

\* void ksu_pause_mount_propagation(bool pause)
ksu_pause_mount_propagation(pause) ==
    /\ ksu_mount_propagation_paused' = IF pause THEN 1 ELSE 0
    /\ last_pause' = <<pause>>
    /\ UNCHANGED <<life_vars, ksu_zygote_started, ksu_modules_devname_initialized,
                   ksu_modules_devname, mnt_flags, free_instances,
                   nmissed, ri_data, pc, fr, nested>>

\* ------------------------------------------------- the kretprobe machinery
\* Invoke handing out instance 1 when no instance is free.
Invoke_NoExhaustionTest(f, src, dst) ==
    /\ pc[f] = "idle"
    /\ IF hook = "registered"
       THEN /\ fr' = SetFrame(f, [IdleFrame EXCEPT !.source_mnt = src, !.dest_mnt = dst,
                       !.ri = IF free_instances # << >> THEN Head(free_instances) ELSE 1])
            /\ free_instances' = IF free_instances # << >> THEN Tail(free_instances) ELSE << >>
            /\ Goto(f, "entry")
       ELSE /\ fr' = SetFrame(f, [IdleFrame EXCEPT !.source_mnt = src, !.dest_mnt = dst])
            /\ Goto(f, "body")
            /\ UNCHANGED free_instances
    /\ UNCHANGED <<life_vars, ctl_vars, mnt_flags, nmissed, ri_data, nested>>

\* A call of attach_recursive_mnt(source_mnt, dest_mnt, ...). With the probe
\* registered the call takes a free instance and runs the entry handler; with
\* no free instance it is counted in nmissed and runs unprobed.
Invoke(f, src, dst) ==
    /\ pc[f] = "idle"
    /\ IF hook = "registered"
       THEN IF free_instances # << >>
            THEN /\ fr' = SetFrame(f, [IdleFrame EXCEPT !.source_mnt = src, !.dest_mnt = dst,
                                                        !.ri = Head(free_instances)])
                 /\ free_instances' = Tail(free_instances)
                 /\ Goto(f, "entry")
                 /\ UNCHANGED nmissed
            ELSE /\ nmissed < MaxMissed
                 /\ nmissed' = nmissed + 1
                 /\ fr' = SetFrame(f, [IdleFrame EXCEPT !.source_mnt = src, !.dest_mnt = dst])
                 /\ Goto(f, "body")
                 /\ UNCHANGED free_instances
       ELSE /\ fr' = SetFrame(f, [IdleFrame EXCEPT !.source_mnt = src, !.dest_mnt = dst])
            /\ Goto(f, "body")
            /\ UNCHANGED <<free_instances, nmissed>>
    /\ UNCHANGED <<life_vars, ctl_vars, mnt_flags, ri_data, nested>>

\* The body of attach_recursive_mnt. It may change another bit of the
\* destination's flags (followed for the mounts of TouchedMounts); it never
\* changes MNT_SHARED.
Body(f) ==
    /\ pc[f] = "body"
    /\ \E touch \in BOOLEAN :
          mnt_flags' = IF touch /\ fr[f].dest_mnt \in TouchedMounts
                       THEN [mnt_flags EXCEPT ![fr[f].dest_mnt] = FlipBit(@, MNT_OTHER)]
                       ELSE mnt_flags
    /\ Goto(f, "ret")
    /\ UNCHANGED <<life_vars, ctl_vars, free_instances, nmissed, ri_data, fr, nested>>

\* ------------------------------- ksu_attach_recursive_mnt_entry, canonical
\* EntryBegin with the test of the pause flag left out.
EntryBegin_NoPauseTest(f) ==
    /\ pc[f] = "entry"
    /\ ri_data' = SetState(fr[f].ri, [ri_data[fr[f].ri] EXCEPT !.spoofed = FALSE])
    /\ Goto(f, "e_check") /\ UNCHANGED fr
    /\ UNCHANGED <<life_vars, ctl_vars, mnt_flags, free_instances, nmissed, nested>>

\* EntryBegin without state->spoofed = false.
EntryBegin_NoDefault(f) ==
    /\ pc[f] = "entry"
    /\ IF ksu_mount_propagation_paused = 0
       THEN Goto(f, "body") /\ fr' = SetFrame(f, [fr[f] EXCEPT !.path = "inactive"])
       ELSE Goto(f, "e_check") /\ UNCHANGED fr
    /\ UNCHANGED <<life_vars, ctl_vars, mnt_flags, free_instances, nmissed, ri_data, nested>>

\* state->spoofed = false; if (atomic_read(&paused) == 0) return 0;
EntryBegin(f) ==
    /\ pc[f] = "entry"
    /\ ri_data' = SetState(fr[f].ri, [ri_data[fr[f].ri] EXCEPT !.spoofed = FALSE])
    /\ IF ksu_mount_propagation_paused = 0
       THEN Goto(f, "body") /\ fr' = SetFrame(f, [fr[f] EXCEPT !.path = "inactive"])
       ELSE Goto(f, "e_check") /\ UNCHANGED fr
    /\ UNCHANGED <<life_vars, ctl_vars, mnt_flags, free_instances, nmissed, nested>>

\* EntryCheck with the test of MNT_SHARED left out.
EntryCheck_NoSharedTest(f) ==
    /\ pc[f] = "e_check"
    /\ IF fr[f].dest_mnt = NULL
       THEN Goto(f, "body") /\ fr' = SetFrame(f, [fr[f] EXCEPT !.path = "null"])
       ELSE /\ Goto(f, "e_capture")
            /\ fr' = SetFrame(f, [fr[f] EXCEPT !.ld = <<mnt_flags[fr[f].dest_mnt]>>])
    /\ UNCHANGED <<life_vars, ctl_vars, mnt_flags, free_instances, nmissed, ri_data, nested>>

\* EntryCheck whose exit for a private destination leaves the original body out.
EntryCheck_SkipsBody(f) ==
    /\ pc[f] = "e_check"
    /\ IF fr[f].dest_mnt = NULL
       THEN Goto(f, "body") /\ fr' = SetFrame(f, [fr[f] EXCEPT !.path = "null"])
       ELSE IF ~HasBit(mnt_flags[fr[f].dest_mnt], MNT_SHARED)
            THEN Goto(f, "ret") /\ fr' = SetFrame(f, [fr[f] EXCEPT !.path = "private"])
            ELSE /\ Goto(f, "e_capture")
                 /\ fr' = SetFrame(f, [fr[f] EXCEPT !.ld = <<mnt_flags[fr[f].dest_mnt]>>])
    /\ UNCHANGED <<life_vars, ctl_vars, mnt_flags, free_instances, nmissed, ri_data, nested>>

\* if (!dest_mnt) return 0; if (!(dest_mnt->mnt.mnt_flags & MNT_SHARED)) return 0;
EntryCheck(f) ==
    /\ pc[f] = "e_check"
    /\ IF fr[f].dest_mnt = NULL
       THEN Goto(f, "body") /\ fr' = SetFrame(f, [fr[f] EXCEPT !.path = "null"])
       ELSE IF ~HasBit(mnt_flags[fr[f].dest_mnt], MNT_SHARED)
            THEN Goto(f, "body") /\ fr' = SetFrame(f, [fr[f] EXCEPT !.path = "private"])
            ELSE /\ Goto(f, "e_capture")
                 /\ fr' = SetFrame(f, [fr[f] EXCEPT !.ld = <<mnt_flags[fr[f].dest_mnt]>>])
    /\ UNCHANGED <<life_vars, ctl_vars, mnt_flags, free_instances, nmissed, ri_data, nested>>

\* unnamed/part_001: dest_mnt = PT_REGS_PARM2(real_regs);
\* if (!(dest_mnt->mnt.mnt_flags & MNT_SHARED)) return 0;
\* The pointer is not tested: with a null dest_mnt the load is a null pointer
\* dereference in kernel mode (pc "oops", the call never continues).
EntryCheckUnvalidated(f) ==
    /\ pc[f] = "e_check"
    /\ IF fr[f].dest_mnt = NULL
       THEN Goto(f, "oops") /\ UNCHANGED fr
       ELSE IF ~HasBit(mnt_flags[fr[f].dest_mnt], MNT_SHARED)
            THEN Goto(f, "body") /\ fr' = SetFrame(f, [fr[f] EXCEPT !.path = "private"])
            ELSE /\ Goto(f, "e_capture")
                 /\ fr' = SetFrame(f, [fr[f] EXCEPT !.ld = <<mnt_flags[fr[f].dest_mnt]>>])
    /\ UNCHANGED <<life_vars, ctl_vars, mnt_flags, free_instances, nmissed, ri_data, nested>>

\* state->dest_mnt = dest_mnt; state->original_flags = dest_mnt->mnt.mnt_flags;
\* state->spoofed = true;
EntryCapture(f) ==
    /\ pc[f] = "e_capture"
    /\ \E v \in Loads(f) :
          /\ ri_data' = SetState(fr[f].ri, [dest_mnt |-> fr[f].dest_mnt,
                                            original_flags |-> v, spoofed |-> TRUE])
          /\ fr' = SetFrame(f, [fr[f] EXCEPT !.ld = <<v>>, !.path = "spoof"])
    /\ Goto(f, "e_load")
    /\ UNCHANGED <<life_vars, ctl_vars, mnt_flags, free_instances, nmissed, nested>>

\* dest_mnt->mnt.mnt_flags &= ~MNT_SHARED, the load
EntryLoad(f) ==
    /\ pc[f] = "e_load"
    /\ \E v \in Loads(f) : fr' = SetFrame(f, [fr[f] EXCEPT !.ld = <<v>>])
    /\ Goto(f, "e_store")
    /\ UNCHANGED <<life_vars, ctl_vars, mnt_flags, free_instances, nmissed, ri_data, nested>>

\* EntryStore writing 0 instead of clearing one bit.
EntryStore_ClearsAll(f) ==
    /\ pc[f] = "e_store"
    /\ mnt_flags' = [mnt_flags EXCEPT ![fr[f].dest_mnt] = 0]
    /\ fr' = SetFrame(f, [fr[f] EXCEPT !.ld = << >>, !.pre = <<mnt_flags[fr[f].dest_mnt]>>])
    /\ Goto(f, "body")
    /\ UNCHANGED <<life_vars, ctl_vars, free_instances, nmissed, ri_data, nested>>

\* EntryStore switching the feature off again once it has spoofed.
EntryStore_Unpauses(f) ==
    /\ pc[f] = "e_store"
    /\ mnt_flags' = [mnt_flags EXCEPT ![fr[f].dest_mnt] = ClearBit(fr[f].ld[1], MNT_SHARED)]
    /\ fr' = SetFrame(f, [fr[f] EXCEPT !.ld = << >>, !.pre = <<mnt_flags[fr[f].dest_mnt]>>])
    /\ Goto(f, "body")
    /\ ksu_mount_propagation_paused' = 0
    /\ UNCHANGED <<life_vars, last_pause, ksu_zygote_started, ksu_modules_devname_initialized,
                   ksu_modules_devname, free_instances, nmissed, ri_data, nested>>

\* dest_mnt->mnt.mnt_flags &= ~MNT_SHARED, the store
EntryStore(f) ==
    /\ pc[f] = "e_store"
    /\ mnt_flags' = [mnt_flags EXCEPT ![fr[f].dest_mnt] = ClearBit(fr[f].ld[1], MNT_SHARED)]
    /\ fr' = SetFrame(f, [fr[f] EXCEPT !.ld = << >>, !.pre = <<mnt_flags[fr[f].dest_mnt]>>])
    /\ Goto(f, "body")
    /\ UNCHANGED <<life_vars, ctl_vars, free_instances, nmissed, ri_data, nested>>

\* --------------------- ksu_attach_recursive_mnt_entry, unnamed/part_000
\* The string mnt_devname of m points to begins with "/dev/block/loop".
DevnameIsLoop(m) ==
    /\ mnt_devname(m) # << >>
    /\ StrncmpEq(mnt_devname(m)[1], LoopPrefix, LOOP_PREFIX_LEN)

\* state->spoofed = false; if (!source_mnt || !dest_mnt) return 0;
\* then the test of step 1: devname not yet captured and a loop device.
AltBegin(f) ==
    /\ pc[f] = "entry"
    /\ ri_data' = SetState(fr[f].ri, [ri_data[fr[f].ri] EXCEPT !.spoofed = FALSE])
    /\ IF fr[f].source_mnt = NULL \/ fr[f].dest_mnt = NULL
       THEN Goto(f, "body") /\ fr' = SetFrame(f, [fr[f] EXCEPT !.path = "null"])
       ELSE /\ UNCHANGED fr
            /\ IF ksu_modules_devname_initialized = 0 /\ DevnameIsLoop(fr[f].source_mnt)
               THEN Goto(f, "a_copy")
               ELSE Goto(f, "a_scope")
    /\ UNCHANGED <<life_vars, ctl_vars, mnt_flags, free_instances, nmissed, nested>>

\* strncpy(ksu_modules_devname, source_mnt->mnt_devname, 255); buf[255] = 0;
AltCopy(f) ==
    /\ pc[f] = "a_copy"
    /\ ksu_modules_devname' = Strncpy(mnt_devname(fr[f].source_mnt)[1], DEVNAME_SIZE - 1)
    /\ Goto(f, "a_set")
    /\ UNCHANGED <<life_vars, ksu_mount_propagation_paused, last_pause, ksu_zygote_started,
                   ksu_modules_devname_initialized, mnt_flags, free_instances, nmissed,
                   ri_data, fr, nested>>

\* atomic_set(&ksu_modules_devname_initialized, 1);
AltSet(f) ==
    /\ pc[f] = "a_set"
    /\ ksu_modules_devname_initialized' = 1
    /\ Goto(f, "a_scope")
    /\ UNCHANGED <<life_vars, ksu_mount_propagation_paused, last_pause, ksu_zygote_started,
                   ksu_modules_devname, mnt_flags, free_instances, nmissed,
                   ri_data, fr, nested>>

\* Step 2 of the entry logic: whether this call is skipped. The condition
\* reads ksu_zygote_started, ksu_modules_devname_initialized and the stored
\* name in this order and stops at the first that decides; the two flags only
\* ever go from 0 to 1, so every outcome of the three reads is the outcome of
\* reading them together at the time of the last read made.
OutOfScope(src) ==
    /\ ksu_zygote_started # 0
    /\ \/ ksu_modules_devname_initialized = 0
       \/ /\ mnt_devname(src) # << >>
          /\ ~StrcmpEq(mnt_devname(src)[1], ksu_modules_devname)

\* AltScope with the result of strcmp taken the other way round.
AltScope_SkipsOnEqual(f) ==
    /\ pc[f] = "a_scope"
    /\ IF /\ ksu_zygote_started # 0
          /\ \/ ksu_modules_devname_initialized = 0
             \/ /\ mnt_devname(fr[f].source_mnt) # << >>
                /\ StrcmpEq(mnt_devname(fr[f].source_mnt)[1], ksu_modules_devname)
       THEN Goto(f, "body") /\ fr' = SetFrame(f, [fr[f] EXCEPT !.path = "scope"])
       ELSE Goto(f, "e_check") /\ UNCHANGED fr
    /\ UNCHANGED <<life_vars, ctl_vars, mnt_flags, free_instances, nmissed, ri_data, nested>>

\* AltScope narrowing the scope whether the latch is set or not.
AltScope_IgnoresLatch(f) ==
    /\ pc[f] = "a_scope"
    /\ IF \/ ksu_modules_devname_initialized = 0
          \/ /\ mnt_devname(fr[f].source_mnt) # << >>
             /\ ~StrcmpEq(mnt_devname(fr[f].source_mnt)[1], ksu_modules_devname)
       THEN Goto(f, "body") /\ fr' = SetFrame(f, [fr[f] EXCEPT !.path = "scope"])
       ELSE Goto(f, "e_check") /\ UNCHANGED fr
    /\ UNCHANGED <<life_vars, ctl_vars, mnt_flags, free_instances, nmissed, ri_data, nested>>

\* if (zygote_started && (!initialized || (devname && strcmp(...) != 0))) return 0;
AltScope(f) ==
    /\ pc[f] = "a_scope"
    /\ IF OutOfScope(fr[f].source_mnt)
       THEN Goto(f, "body") /\ fr' = SetFrame(f, [fr[f] EXCEPT !.path = "scope"])
       ELSE Goto(f, "e_check") /\ UNCHANGED fr
    /\ UNCHANGED <<life_vars, ctl_vars, mnt_flags, free_instances, nmissed, ri_data, nested>>

\* if (!(dest_mnt->mnt.mnt_flags & MNT_SHARED)) return 0;
AltCheck(f) ==
    /\ pc[f] = "e_check"
    /\ IF ~HasBit(mnt_flags[fr[f].dest_mnt], MNT_SHARED)
       THEN Goto(f, "body") /\ fr' = SetFrame(f, [fr[f] EXCEPT !.path = "private"])
       ELSE /\ Goto(f, "e_capture")
            /\ fr' = SetFrame(f, [fr[f] EXCEPT !.ld = <<mnt_flags[fr[f].dest_mnt]>>])
    /\ UNCHANGED <<life_vars, ctl_vars, mnt_flags, free_instances, nmissed, ri_data, nested>>

\* ksu_set_zygote_started flipping the latch.
ksu_set_zygote_started_flips ==
    /\ ksu_zygote_started' = 1 - ksu_zygote_started
    /\ UNCHANGED <<life_vars, ksu_mount_propagation_paused, last_pause,
                   ksu_modules_devname_initialized, ksu_modules_devname, mnt_flags,
                   free_instances, nmissed, ri_data, pc, fr, nested>>

\* void ksu_set_zygote_started(void)
ksu_set_zygote_started ==
    /\ ksu_zygote_started' = 1
    /\ UNCHANGED <<life_vars, ksu_mount_propagation_paused, last_pause,
                   ksu_modules_devname_initialized, ksu_modules_devname, mnt_flags,
                   free_instances, nmissed, ri_data, pc, fr, nested>>

\* ------------------------------------------- ksu_attach_recursive_mnt_ret
\* Restored looking at the pause flag again.
Restored_IfStillPaused(s) ==
    IF ri_data[s].spoofed /\ ksu_mount_propagation_paused # 0
    THEN [mnt_flags EXCEPT ![ri_data[s].dest_mnt] = ri_data[s].original_flags]
    ELSE mnt_flags

\* The flags after the return handler ran on instance s.
Restored(s) ==
    IF ri_data[s].spoofed
    THEN [mnt_flags EXCEPT ![ri_data[s].dest_mnt] = ri_data[s].original_flags]
    ELSE mnt_flags

\* The free instances after instance s was recycled.
Recycle(s) == IF hook = "registered" THEN <<s>> \o free_instances ELSE free_instances

\* The call returns: with an instance of the registered probe, the return
\* handler runs and the instance goes back to the free instances; without
\* one, nothing runs. unregister_kretprobe does not wait for the calls in
\* flight: it detaches their instances from the probe, and the return of such
\* a call runs no handler.
Return(f) ==
    /\ pc[f] = "ret"
    /\ IF fr[f].ri # 0 /\ hook = "registered"
       THEN /\ mnt_flags' = Restored(fr[f].ri)
            /\ free_instances' = Recycle(fr[f].ri)
       ELSE UNCHANGED <<mnt_flags, free_instances>>
    /\ fr' = SetFrame(f, IdleFrame)
    /\ Goto(f, "idle")
    /\ UNCHANGED <<life_vars, ctl_vars, nmissed, ri_data, nested>>

\* ------------------------------------------ further invocations, in bulk
\* Another call of attach_recursive_mnt with a null destination, made while
\* the calls before it are still running. Its entry handler sets spoofed =
\* false and returns at the pause test or at the null test.
NestedEnter ==
    /\ hook = "registered"
    /\ IF free_instances # << >>
       THEN /\ nested' = Append(nested, Head(free_instances))
            /\ free_instances' = Tail(free_instances)
            /\ ri_data' = SetState(Head(free_instances),
                                   [ri_data[Head(free_instances)] EXCEPT !.spoofed = FALSE])
            /\ UNCHANGED nmissed
       ELSE /\ nmissed < MaxMissed
            /\ nmissed' = nmissed + 1
            /\ UNCHANGED <<nested, free_instances, ri_data>>
    /\ UNCHANGED <<life_vars, ctl_vars, mnt_flags, pc, fr>>

\* The innermost of those calls returns: its return handler runs if the probe
\* is still registered.
NestedReturn ==
    /\ nested # << >>
    /\ IF hook = "registered"
       THEN /\ mnt_flags' = Restored(nested[Len(nested)])
            /\ free_instances' = Recycle(nested[Len(nested)])
       ELSE UNCHANGED <<mnt_flags, free_instances>>
    /\ nested' = SubSeq(nested, 1, Len(nested) - 1)
    /\ UNCHANGED <<life_vars, ctl_vars, nmissed, ri_data, pc, fr>>

\* ----------------------------------------------------------- specification
\* kernel/mount_hook.c from module load on, up to (not including) teardown.
Next ==
    \/ ksu_mount_hook_init
    \/ \E b \in BOOLEAN : ksu_pause_mount_propagation(b)
    \/ \E f \in Frames, dst \in DestMounts \cup {NULL} : Invoke(f, "m3", dst)
    \/ \E f \in Frames : EntryBegin(f)
    \/ \E f \in Frames : EntryCheck(f)
    \/ \E f \in Frames : EntryCapture(f)
    \/ \E f \in Frames : EntryLoad(f)
    \/ \E f \in Frames : EntryStore(f)
    \/ \E f \in Frames : Body(f)
    \/ \E f \in Frames : Return(f)

Spec == Init /\ [][Next]_vars

\* A step of invocation f once it has been called: its handlers and the
\* original body.
FrameStep(f) ==
    \/ EntryBegin(f)
    \/ EntryCheck(f)
    \/ EntryCapture(f)
    \/ EntryLoad(f)
    \/ EntryStore(f)
    \/ Body(f)
    \/ Return(f)

\* kernel/mount_hook.c where every invocation that has been called keeps
\* running: the handlers take no lock and do not sleep, and the original body
\* is taken to return.
SpecFair == Spec /\ \A f \in Frames : WF_vars(FrameStep(f))

\* kernel/mount_hook.c with one invocation at a time.
NextSingle ==
    \/ ksu_mount_hook_init
    \/ \E b \in BOOLEAN : ksu_pause_mount_propagation(b)
    \/ \E dst \in DestMounts \cup {NULL} : Invoke(1, "m3", dst)
    \/ EntryBegin(1)
    \/ EntryCheck(1)
    \/ EntryCapture(1)
    \/ EntryLoad(1)
    \/ EntryStore(1)
    \/ Body(1)
    \/ Return(1)

SpecSingle == Init /\ [][NextSingle]_vars

\* kernel/mount_hook.c with one invocation followed step by step, up to
\* maxactive further ones that take a do-nothing exit, and teardown. The
\* calls nest as on one call stack: the invocation followed step by step is
\* the outermost call, or the call that finds every instance in use, and a
\* call returns after the calls made inside it.
NextPool ==
    \/ ksu_mount_hook_init
    \/ ksu_mount_hook_exit
    \/ \E b \in BOOLEAN : ksu_pause_mount_propagation(b)
    \/ \E dst \in {"m1", NULL} :
          (nested = << >> \/ free_instances = << >>) /\ Invoke(1, "m3", dst)
    \/ EntryBegin(1)
    \/ EntryCheck(1)
    \/ EntryCapture(1)
    \/ EntryLoad(1)
    \/ EntryStore(1)
    \/ Body(1)
    \/ (nested = << >> \/ fr[1].ri = 0) /\ Return(1)
    \/ (pc[1] # "idle" => fr[1].ri # 0) /\ NestedEnter
    \/ (pc[1] # "idle" => fr[1].ri # 0) /\ NestedReturn

SpecPool == Init /\ [][NextPool]_vars

\* The calls followed in the revision with the device name: <<source_mnt,
\* dest_mnt>>, from the two loop devices, from a mount with another name, from
\* one with no name, and with a null source or a null destination.
AltCalls == {<<"m3", "m1">>, <<"m4", "m1">>, <<"m2", "m1">>, <<"m5", "m1">>,
             <<NULL, "m1">>, <<"m3", NULL>>}

\* unnamed/part_000: the zygote latch and the captured device name. Its
\* capture, clearing store and return handler are those of
\* kernel/mount_hook.c, line for line. The original body is followed as
\* leaving the flags alone.
NextAlt ==
    \/ ksu_mount_hook_init
    \/ ksu_set_zygote_started
    \/ \E f \in Frames, c \in AltCalls : Invoke(f, c[1], c[2])
    \/ \E f \in Frames : AltBegin(f)
    \/ \E f \in Frames : AltCopy(f)
    \/ \E f \in Frames : AltSet(f)
    \/ \E f \in Frames : AltScope(f)
    \/ \E f \in Frames : AltCheck(f)
    \/ \E f \in Frames : EntryCapture(f)
    \/ \E f \in Frames : EntryLoad(f)
    \/ \E f \in Frames : EntryStore(f)
    \/ \E f \in Frames : Body(f) /\ UNCHANGED mnt_flags
    \/ \E f \in Frames : Return(f)

SpecAlt == Init /\ [][NextAlt]_vars

\* Initialization in both revisions that have the pause flag: init of
\* kernel/mount_hook.c or of unnamed/part_001, then invocations with a
\* non-null destination (where the entry logic of the two is the same).
NextInit ==
    \/ ksu_mount_hook_init
    \/ ksu_mount_hook_init_lookup
    \/ ksu_mount_hook_exit
    \/ \E b \in BOOLEAN : ksu_pause_mount_propagation(b)
    \/ \E dst \in DestMounts : Invoke(1, "m3", dst)
    \/ EntryBegin(1)
    \/ EntryCheck(1)
    \/ EntryCapture(1)
    \/ EntryLoad(1)
    \/ EntryStore(1)
    \/ Body(1)
    \/ Return(1)

SpecInit == Init /\ [][NextInit]_vars

\* The two revisions with the pause flag, one invocation at a time, called
\* with and without a source and a destination: the entry logic of
\* kernel/mount_hook.c, and that of unnamed/part_001, which differs from it in
\* the test of the destination only.
NextNull ==
    \/ ksu_mount_hook_init
    \/ \E b \in BOOLEAN : ksu_pause_mount_propagation(b)
    \/ \E src \in {"m3", NULL}, dst \in DestMounts \cup {NULL} : Invoke(1, src, dst)
    \/ EntryBegin(1)
    \/ EntryCheck(1)
    \/ EntryCheckUnvalidated(1)
    \/ EntryCapture(1)
    \/ EntryLoad(1)
    \/ EntryStore(1)
    \/ Body(1)
    \/ Return(1)

SpecNull == Init /\ [][NextNull]_vars

\* The hook logic of both designs next to each other, with every control
\* operation and teardown: frame 1 is an invocation under kernel/mount_hook.c
\* (pause flag), frame 2 an invocation under unnamed/part_000 (zygote latch
\* and captured name). The original body is followed as leaving the flags
\* alone.
NextBoth ==
    \/ ksu_mount_hook_init
    \/ ksu_mount_hook_exit
    \/ \E b \in BOOLEAN : ksu_pause_mount_propagation(b)
    \/ ksu_set_zygote_started
    \/ \E dst \in DestMounts \cup {NULL} : Invoke(1, "m3", dst)
    \/ EntryBegin(1)
    \/ EntryCheck(1)
    \/ \E c \in AltCalls : Invoke(2, c[1], c[2])
    \/ AltBegin(2)
    \/ AltCopy(2)
    \/ AltSet(2)
    \/ AltScope(2)
    \/ AltCheck(2)
    \/ \E f \in Frames : EntryCapture(f)
    \/ \E f \in Frames : EntryLoad(f)
    \/ \E f \in Frames : EntryStore(f)
    \/ \E f \in Frames : Body(f) /\ UNCHANGED mnt_flags
    \/ \E f \in Frames : Return(f)

SpecBoth == Init /\ [][NextBoth]_vars

\* ------------------------------------------------------------------ claims
\* Frame f takes a step / returns to its caller.
Step(f) == pc'[f] # pc[f]
Returning(f) == pc[f] = "ret" /\ pc'[f] = "idle"
Quiescent == (\A f \in Frames : pc[f] = "idle") /\ nested = << >>

\* C1 (as stated). Round trip: when the return logic of an invocation that
\* recorded spoofed = true completes, its destination's flags equal the value
\* they had right before that invocation cleared the shared bit, and that
\* value has the shared bit set.
C1_RoundTrip ==
    [][\A f \in Frames :
          (Returning(f) /\ fr[f].path = "spoof") =>
              /\ HasBit(fr[f].pre[1], MNT_SHARED)
              /\ mnt_flags'[fr[f].dest_mnt] = fr[f].pre[1]]_vars

\* C2 (as stated). No permanent clearing: whenever no hooked invocation is in
\* flight, every mount that was shared before the mechanism touched it is
\* still shared.
C2_NoPermanentClearing ==
    Quiescent => \A m \in Mounts :
                    HasBit(BootFlags[m], MNT_SHARED) => HasBit(mnt_flags[m], MNT_SHARED)

\* C3. Inactive means untouched: the pause flag is 0 at module load; an
\* invocation whose entry logic reads it as 0 goes straight to the original
\* body with spoofed = false, and neither its entry logic nor its return
\* logic changes the flags of any mount.
C3_InactiveUntouched ==
    /\ ksu_mount_propagation_paused = 0
    /\ [][\A f \in Frames :
             /\ (pc[f] = "entry" /\ Step(f) /\ ksu_mount_propagation_paused = 0) =>
                    /\ pc'[f] = "body"
                    /\ fr'[f].path = "inactive"
                    /\ ~ri_data'[fr[f].ri].spoofed
                    /\ mnt_flags' = mnt_flags
             /\ fr[f].path = "inactive" =>
                    /\ pc[f] \in {"body", "ret"}
                    /\ ~ri_data[fr[f].ri].spoofed
             /\ (fr[f].path = "inactive" /\ Returning(f)) => mnt_flags' = mnt_flags]_vars

\* C3 witness: an invocation on the shared mount that entered while the
\* feature was inactive is about to return, the mount still shared, although
\* the feature has been switched on in between.
C3_Witness ==
    \E f \in Frames :
        /\ pc[f] = "ret" /\ fr[f].ri # 0 /\ fr[f].path = "inactive"
        /\ fr[f].dest_mnt = "m1" /\ HasBit(mnt_flags["m1"], MNT_SHARED)
        /\ ksu_mount_propagation_paused = 1

\* C4. Already private means untouched: an active invocation whose
\* destination has the shared bit clear when entry logic tests it records
\* spoofed = false, and neither entry nor return logic writes any flags.
C4_PrivateUntouched ==
    [][\A f \in Frames :
          /\ (pc[f] = "e_check" /\ Step(f) /\ fr[f].dest_mnt # NULL
                /\ ~HasBit(mnt_flags[fr[f].dest_mnt], MNT_SHARED)) =>
                 /\ pc'[f] = "body"
                 /\ fr'[f].path = "private"
                 /\ ~ri_data'[fr[f].ri].spoofed
                 /\ mnt_flags' = mnt_flags
          /\ fr[f].path = "private" =>
                 /\ pc[f] \in {"body", "ret"}
                 /\ ~ri_data[fr[f].ri].spoofed
          /\ (fr[f].path = "private" /\ Returning(f)) => mnt_flags' = mnt_flags]_vars

\* C4 witness: an active invocation on the private mount m2 is about to return.
C4_Witness ==
    \E f \in Frames :
        /\ pc[f] = "ret" /\ fr[f].path = "private" /\ fr[f].dest_mnt = "m2"
        /\ ~HasBit(mnt_flags["m2"], MNT_SHARED)

\* C5. Decision fixed at entry: whatever the pause flag is when an invocation
\* returns, its return logic writes the captured flags back if it recorded
\* spoofed = true and writes nothing otherwise; between its entry logic and
\* its return logic no toggle and no other invocation changes what it
\* recorded.
C5_DecisionFixedAtEntry ==
    [][\A f \in Frames :
          /\ (Returning(f) /\ fr[f].ri # 0) =>
                 IF fr[f].path = "spoof"
                 THEN mnt_flags' = [mnt_flags EXCEPT ![fr[f].dest_mnt] =
                                        ri_data[fr[f].ri].original_flags]
                 ELSE mnt_flags' = mnt_flags
          /\ (fr[f].ri # 0 /\ pc[f] \in {"body", "ret"}) =>
                 ri_data[fr[f].ri].spoofed = (fr[f].path = "spoof")
          /\ (fr[f].ri # 0 /\ pc[f] \in {"body", "ret"} /\ ~Step(f)) =>
                 /\ ri_data'[fr[f].ri] = ri_data[fr[f].ri]
                 /\ fr'[f] = fr[f]]_vars

\* C5 witness: an invocation that spoofed is about to return after the
\* feature was switched off.
C5_Witness ==
    \E f \in Frames :
        /\ pc[f] = "ret" /\ fr[f].path = "spoof"
        /\ last_pause = <<FALSE>> /\ ksu_mount_propagation_paused = 0

\* C8. The toggle applies to future invocations: while the last completed
\* call was ksu_pause_mount_propagation(true), entry logic that starts goes on
\* to test the destination, and with a non-null destination whose shared bit
\* is set when tested it records spoofed = true and stores the flags with the
\* shared bit clear; while the last completed call was
\* ksu_pause_mount_propagation(false), entry logic that starts takes the
\* inactive exit, and such an invocation changes no flags.
C8_ToggleAppliesToFuture ==
    [][\A f \in Frames :
          /\ (pc[f] = "entry" /\ Step(f) /\ last_pause = <<TRUE>>) => pc'[f] = "e_check"
          /\ (pc[f] = "e_check" /\ Step(f) /\ fr[f].dest_mnt # NULL
                /\ HasBit(mnt_flags[fr[f].dest_mnt], MNT_SHARED)) => pc'[f] = "e_capture"
          /\ (pc[f] = "e_capture" /\ Step(f)) =>
                 pc'[f] = "e_load" /\ ri_data'[fr[f].ri].spoofed
          /\ (pc[f] = "e_load" /\ Step(f)) => pc'[f] = "e_store"
          /\ (pc[f] = "e_store" /\ Step(f)) =>
                 /\ pc'[f] = "body"
                 /\ ri_data'[fr[f].ri].spoofed
                 /\ ~HasBit(mnt_flags'[fr[f].dest_mnt], MNT_SHARED)
          /\ (pc[f] = "entry" /\ Step(f) /\ last_pause = <<FALSE>>) =>
                 pc'[f] = "body" /\ fr'[f].path = "inactive"
          /\ (fr[f].path = "inactive" /\ Returning(f)) => mnt_flags' = mnt_flags]_vars

\* C8 witness: with ksu_pause_mount_propagation(true) the last call, an
\* invocation on the shared mount m1 has cleared its shared bit.
C8_Witness ==
    \E f \in Frames :
        /\ pc[f] = "body" /\ fr[f].path = "spoof" /\ fr[f].dest_mnt = "m1"
        /\ ~HasBit(mnt_flags["m1"], MNT_SHARED)
        /\ last_pause = <<TRUE>>

\* The instances held by frames, and the frames a given instance is held by.
HeldByFrames == {fr[f].ri : f \in Frames} \ {0}
Range(q) == {q[i] : i \in DOMAIN q}
NoRepeats(q) == Cardinality(Range(q)) = Len(q)

\* C6. Pool bound: at most maxactive = 64 invocations hold an instance, no
\* instance is held twice or both held and free; an invocation that arrives
\* while the probe is registered and no instance is free goes straight to the
\* original body without an instance, changes no flags and no instance data
\* and adds exactly one to nmissed, which changes in no other way; without an
\* instance neither handler runs; teardown reports nmissed when it is not 0.
C6_PoolBound ==
    [][/\ maxactive = 64
       /\ Cardinality(HeldByFrames) + Len(nested) <= maxactive
       /\ \A f, g \in Frames : (f # g /\ fr[f].ri # 0) => fr[f].ri # fr[g].ri
       /\ NoRepeats(nested) /\ NoRepeats(free_instances)
       /\ HeldByFrames \cap Range(nested) = {}
       /\ (HeldByFrames \cup Range(nested)) \cap Range(free_instances) = {}
       /\ \A f \in Frames :
             /\ (pc[f] = "idle" /\ Step(f) /\ hook = "registered" /\ free_instances = << >>) =>
                    /\ pc'[f] = "body" /\ fr'[f].ri = 0
                    /\ nmissed' = nmissed + 1
                    /\ mnt_flags' = mnt_flags /\ ri_data' = ri_data
             /\ fr[f].ri = 0 => pc[f] \in {"idle", "body", "ret"}
             /\ (fr[f].ri = 0 /\ Returning(f)) => mnt_flags' = mnt_flags /\ ri_data' = ri_data
       /\ nmissed' # nmissed =>
             /\ nmissed' = nmissed + 1
             /\ hook = "registered" /\ free_instances = << >>
             /\ mnt_flags' = mnt_flags /\ ri_data' = ri_data
       /\ (~exit_state.done /\ exit_state'.done) =>
             exit_state'.warned = (IF kprobes THEN nmissed ELSE 0)]_vars

\* C6 witness: all 64 instances are held, an invocation on the shared mount
\* that found none free runs the original body unprobed, the missed count is
\* not 0 and the mount is still shared.
C6_Witness ==
    /\ hook = "registered" /\ free_instances = << >>
    /\ Cardinality(HeldByFrames) + Len(nested) = 64
    /\ pc[1] = "body" /\ fr[1].ri = 0 /\ fr[1].dest_mnt = "m1"
    /\ ksu_mount_propagation_paused = 1
    /\ nmissed > 0 /\ HasBit(mnt_flags["m1"], MNT_SHARED)

\* C7. Spoof step result, one invocation at a time: entering while active
\* with a destination whose flags F have the shared bit set, entry logic
\* records dest_mnt, original_flags = F and spoofed = true and makes the live
\* flags F without the shared bit, all other flags of all mounts unchanged;
\* the original body runs with the destination not shared; return logic makes
\* the flags F again.
C7_SpoofStep ==
    [][\A f \in Frames :
          /\ (pc[f] = "e_check" /\ Step(f) /\ fr[f].dest_mnt # NULL
                /\ HasBit(mnt_flags[fr[f].dest_mnt], MNT_SHARED)) => pc'[f] = "e_capture"
          /\ (pc[f] = "e_capture" /\ Step(f)) =>
                 /\ ri_data'[fr[f].ri] = [dest_mnt |-> fr[f].dest_mnt,
                                          original_flags |-> mnt_flags[fr[f].dest_mnt],
                                          spoofed |-> TRUE]
                 /\ mnt_flags' = mnt_flags
          /\ (pc[f] = "e_store" /\ Step(f)) =>
                 /\ ri_data[fr[f].ri].original_flags = mnt_flags[fr[f].dest_mnt]
                 /\ HasBit(mnt_flags[fr[f].dest_mnt], MNT_SHARED)
                 /\ mnt_flags' = [mnt_flags EXCEPT ![fr[f].dest_mnt] = @ - MNT_SHARED]
                 /\ ri_data' = ri_data
                 /\ pc'[f] = "body"
          /\ (pc[f] = "body" /\ fr[f].path = "spoof") =>
                 ~HasBit(mnt_flags[fr[f].dest_mnt], MNT_SHARED)
          /\ (Returning(f) /\ fr[f].path = "spoof") =>
                 /\ fr[f].pre = <<ri_data[fr[f].ri].original_flags>>
                 /\ mnt_flags' = [mnt_flags EXCEPT ![fr[f].dest_mnt] = fr[f].pre[1]]]_vars

\* C7 witness: SHARED|0x10 was captured, the live flags are 0x10 and the
\* invocation is about to return.
C7_Witness ==
    /\ pc[1] = "ret" /\ fr[1].path = "spoof" /\ fr[1].dest_mnt = "m1"
    /\ fr[1].pre = <<MNT_SHARED + MNT_OTHER>>
    /\ ri_data[fr[1].ri].original_flags = MNT_SHARED + MNT_OTHER
    /\ mnt_flags["m1"] = MNT_OTHER

Attached == hook \in {"registered", "unregistered"}

\* C9 (as stated). ksu_mount_hook_init returns 0 exactly when the pair has
\* been attached, and a negative code otherwise.
C9_ZeroIffAttached ==
    \A r \in init_ret : (r = 0 <=> Attached) /\ (r # 0 => r < 0)

\* C9 (amended). In a build with kprobes, ksu_mount_hook_init returns 0
\* exactly when the pair has been attached; with the symbol unresolved or the
\* registration rejected it returns the negative code of the failure (-ENOENT
\* for the symbol), nothing is attached, then or later, and no invocation
\* gets an instance, runs a handler or has flags changed outside the original
\* body. In a build without kprobes it returns 0 and attaches nothing.
C9_InitResult ==
    [][/\ \A r \in init_ret :
             /\ kprobes => (r = 0 <=> Attached)
             /\ ~kprobes => (r = 0 /\ hook = "none")
             /\ r # 0 => (r < 0 /\ r \in {0 - ENOENT, 0 - EINVAL} /\ ~Attached)
             /\ (kprobes /\ ~symbol_found) => r = 0 - ENOENT
       /\ (init_ret # {} /\ ~Attached) => ~Attached'
       /\ ~Attached =>
             /\ free_instances = << >>
             /\ \A f \in Frames :
                   /\ fr[f].ri = 0 /\ pc[f] \in {"idle", "body", "ret"}
                   /\ (Step(f) /\ pc[f] # "body") => mnt_flags' = mnt_flags]_vars

\* C9 witness: init failed with -EINVAL, the feature was then switched on and
\* an invocation on the shared mount runs unprobed, the mount still shared.
C9_Witness ==
    /\ init_ret = {0 - EINVAL} /\ hook = "failed"
    /\ ksu_mount_propagation_paused = 1
    /\ pc[1] = "ret" /\ fr[1].dest_mnt = "m1" /\ fr[1].ri = 0
    /\ HasBit(mnt_flags["m1"], MNT_SHARED)

\* The source of frame f has a device name, and the name it has.
Named(f) == fr[f].source_mnt # NULL /\ mnt_devname(fr[f].source_mnt) # << >>
NameOf(f) == mnt_devname(fr[f].source_mnt)[1]
BeginsWithLoop(n) == Len(n) >= Len(LoopPrefix) /\ SubSeq(n, 1, Len(LoopPrefix)) = LoopPrefix

\* C10. Capture, then narrow: the latch and the captured flag are 0 at load;
\* entry logic that finds the captured flag 0 and a source name beginning
\* with "/dev/block/loop" stores that name and then sets the captured flag;
\* with the latch set and a name captured, entry logic of an invocation whose
\* source has a name other than the stored one takes the out-of-scope exit:
\* spoofed = false, and neither it nor its return logic changes any flags,
\* shared destination or not.
C10_CaptureThenNarrow ==
    /\ ksu_zygote_started = 0 /\ ksu_modules_devname_initialized = 0
    /\ [][\A f \in Frames :
             /\ (pc[f] = "entry" /\ Step(f) /\ fr[f].dest_mnt # NULL /\ Named(f)
                   /\ ksu_modules_devname_initialized = 0 /\ BeginsWithLoop(NameOf(f))) =>
                    pc'[f] = "a_copy"
             /\ (pc[f] = "a_copy" /\ Step(f)) =>
                    /\ BeginsWithLoop(NameOf(f))
                    /\ ksu_modules_devname' = NameOf(f)
                    /\ pc'[f] = "a_set"
             /\ (pc[f] = "a_set" /\ Step(f)) =>
                    ksu_modules_devname_initialized' = 1 /\ pc'[f] = "a_scope"
             /\ (pc[f] = "a_scope" /\ Step(f) /\ ksu_zygote_started = 1
                   /\ ksu_modules_devname_initialized = 1
                   /\ Named(f) /\ NameOf(f) # ksu_modules_devname) =>
                    /\ pc'[f] = "body"
                    /\ fr'[f].path = "scope"
                    /\ ~ri_data'[fr[f].ri].spoofed
                    /\ mnt_flags' = mnt_flags
             /\ fr[f].path = "scope" =>
                    /\ pc[f] \in {"body", "ret"}
                    /\ ~ri_data[fr[f].ri].spoofed
             /\ (fr[f].path = "scope" /\ Step(f)) => mnt_flags' = mnt_flags]_vars

\* C10 witness: /dev/block/loop7 was captured, the latch is set, and an
\* invocation from /dev/block/loop8 on the shared mount m1 was bypassed, the
\* mount still shared.
C10_Witness ==
    /\ ksu_zygote_started = 1 /\ ksu_modules_devname_initialized = 1
    /\ ksu_modules_devname = LoopPrefix \o <<"7">>
    /\ \E f \in Frames :
          /\ pc[f] = "ret" /\ fr[f].path = "scope" /\ fr[f].ri # 0
          /\ fr[f].source_mnt = "m4" /\ fr[f].dest_mnt = "m1"
    /\ HasBit(mnt_flags["m1"], MNT_SHARED)

\* C11 (as stated). Scope after bootstrap: with the latch set, entry logic
\* lets an invocation go on to the test of the destination only if a name has
\* been captured and the source has a device name equal to it; an invocation
\* whose source has no device name, or that finds no name captured, takes the
\* out-of-scope exit, and an invocation that took it writes no flags.
C11_ScopeAfterBootstrap ==
    [][\A f \in Frames :
          /\ (pc[f] = "a_scope" /\ Step(f) /\ ksu_zygote_started = 1
                /\ pc'[f] # "body") =>
                 /\ ksu_modules_devname_initialized = 1
                 /\ Named(f)
                 /\ NameOf(f) = ksu_modules_devname
          /\ (fr[f].path = "scope" /\ Step(f)) => mnt_flags' = mnt_flags]_vars

\* C12 (as stated). Null references are skipped: an invocation whose source
\* or destination mount reference is null never dereferences a null reference,
\* never records spoofed = true, changes no flags in its entry or return logic
\* and goes on to the original body, active or not.
C12_NullSkipped ==
    [][\A f \in Frames :
          (fr[f].ri # 0 /\ (fr[f].source_mnt = NULL \/ fr[f].dest_mnt = NULL)
             /\ Step(f) /\ pc[f] # "body") =>
              /\ pc'[f] # "oops"
              /\ ~ri_data'[fr[f].ri].spoofed
              /\ mnt_flags' = mnt_flags
              /\ pc[f] \in {"entry", "e_check"} => pc'[f] \in {"e_check", "body"}]_vars

\* C13. ksu_pause_mount_propagation is idempotent and the last writer wins:
\* the pause flag is always 0 or 1 and equals the argument of the call whose
\* write came last (0 before any call); a call with the same argument as the
\* call before it leaves the flag as it is, and so does every step that is
\* not a call.
C13_SetPausedIdempotent ==
    /\ [](/\ ksu_mount_propagation_paused \in {0, 1}
          /\ ksu_mount_propagation_paused = (IF last_pause = <<TRUE>> THEN 1 ELSE 0))
    /\ [][last_pause' = last_pause =>
             ksu_mount_propagation_paused' = ksu_mount_propagation_paused]_vars

\* C13 witness: ksu_pause_mount_propagation(true) was called, an invocation
\* spoofed under it, then ksu_pause_mount_propagation(false) was called and
\* the flag is 0.
C13_Witness ==
    /\ last_pause = <<FALSE>> /\ ksu_mount_propagation_paused = 0
    /\ \E f \in Frames : pc[f] = "body" /\ fr[f].path = "spoof"

\* C14. The bootstrap latch is one-shot: it is 0 at load and only ever 0 or
\* 1; a step that changes it is a call of ksu_set_zygote_started, takes it
\* from 0 to 1 and changes nothing else; a call made with the latch set
\* changes nothing at all; once 1 it stays 1 through hook entry, hook return,
\* init and teardown.
C14_LatchOneShot ==
    /\ ksu_zygote_started = 0
    /\ [](ksu_zygote_started \in {0, 1})
    /\ [][/\ ksu_zygote_started = 1 => ksu_zygote_started' = 1
          /\ ksu_zygote_started' # ksu_zygote_started =>
                /\ ksu_set_zygote_started
                /\ ksu_zygote_started = 0 /\ ksu_zygote_started' = 1
          /\ (ksu_zygote_started = 1 /\ ksu_set_zygote_started) => UNCHANGED vars]_vars

\* C14 witness: the latch is set, a name is captured, teardown has run, and
\* an invocation that spoofed is about to return.
C14_Witness ==
    /\ ksu_zygote_started = 1 /\ exit_state.done
    /\ pc[2] = "ret" /\ fr[2].path = "spoof" /\ fr[2].source_mnt = "m3"
    /\ ksu_modules_devname_initialized = 1

\* C15. Hook logic does not write the control flags: no step of an
\* invocation (entry logic, original body, return logic) changes the pause
\* flag or the bootstrap latch; the pause flag changes only in a call of
\* ksu_pause_mount_propagation and the latch only in a call of
\* ksu_set_zygote_started.
C15_HooksLeaveControlFlags ==
    [][/\ \A f \in Frames :
             Step(f) => /\ ksu_mount_propagation_paused' = ksu_mount_propagation_paused
                        /\ ksu_zygote_started' = ksu_zygote_started
       /\ ksu_mount_propagation_paused' # ksu_mount_propagation_paused =>
             \E b \in BOOLEAN : ksu_pause_mount_propagation(b)
       /\ ksu_zygote_started' # ksu_zygote_started => ksu_set_zygote_started]_vars

\* C15 witness: with the pause flag and the latch both set, an invocation of
\* each design has run its entry logic to the end, the first one spoofing,
\* and both flags are still set.
C15_Witness ==
    /\ ksu_mount_propagation_paused = 1 /\ ksu_zygote_started = 1
    /\ pc[1] = "ret" /\ fr[1].path = "spoof"
    /\ pc[2] = "body" /\ fr[2].path \in {"spoof", "private"}

EntryLabels == {"entry", "e_check", "e_capture", "e_load", "e_store"}

C17_CapturedNameFrozen ==
    [][ksu_modules_devname_initialized = 1 =>
          ksu_modules_devname' = ksu_modules_devname]_vars

\* C18 (as stated). The slot is cleared on release: an instance that is back
\* among the free instances holds no destination mount reference and its
\* spoofed marker is false.
C18_SlotClearedOnRelease ==
    \A s \in Range(free_instances) :
        ri_data[s].dest_mnt = NULL /\ ~ri_data[s].spoofed

DoNothingPaths == {"inactive", "null", "private", "scope"}

\* C19. Recycled slots are harmless: whatever its instance was left with,
\* the first step of entry logic makes the spoofed marker false; an
\* invocation that took a do-nothing exit (inactive, null reference,
\* destination already private, out of scope) has the marker false from then
\* on, and its return logic writes no flags and no instance data.
C19_RecycledSlotsHarmless ==
    [][\A f \in Frames :
          fr[f].ri # 0 =>
             /\ (pc[f] = "entry" /\ Step(f)) => ~ri_data'[fr[f].ri].spoofed
             /\ fr[f].path \in DoNothingPaths => ~ri_data[fr[f].ri].spoofed
             /\ (fr[f].path \in DoNothingPaths /\ Returning(f)) =>
                   mnt_flags' = mnt_flags /\ ri_data' = ri_data]_vars

\* C19 witness: two invocations are about to return, one that entered while
\* the feature was inactive and one that was out of scope, each on an
\* instance that still holds the destination and the flags (with the shared
\* bit) captured by an earlier invocation.
C19_Witness ==
    /\ pc[1] = "ret" /\ fr[1].path = "inactive"
    /\ pc[2] = "ret" /\ fr[2].path = "scope"
    /\ \A f \in Frames :
          /\ fr[f].ri # 0
          /\ ri_data[fr[f].ri].dest_mnt = "m1"
          /\ HasBit(ri_data[fr[f].ri].original_flags, MNT_SHARED)
          /\ ~ri_data[fr[f].ri].spoofed

\* C20 (as stated). The body runs under the cleared bit: while an invocation
\* that holds an instance, got past the pause test and has a non-null
\* destination that was shared before the mechanism touched it is in the
\* original body, the shared bit of that destination is clear.
C20_BodyUnderClearedBit ==
    \A f \in Frames :
        (/\ pc[f] = "body" /\ fr[f].ri # 0
         /\ fr[f].path \in {"private", "spoof"}
         /\ fr[f].dest_mnt # NULL
         /\ HasBit(BootFlags[fr[f].dest_mnt], MNT_SHARED)) =>
            ~HasBit(mnt_flags[fr[f].dest_mnt], MNT_SHARED)

\* Every mount that was shared when the module was loaded is shared.
SharedAsAtBoot ==
    \A m \in Mounts : HasBit(BootFlags[m], MNT_SHARED) => HasBit(mnt_flags[m], MNT_SHARED)

\* C21 (as stated). Teardown does not strand a spoof: the return of an
\* invocation that recorded spoofed = true writes the captured flags back to
\* its destination, also when ksu_mount_hook_exit has run in between; after
\* teardown, with no invocation in flight, every mount that was shared before
\* the mechanism touched it is shared.
C21_TeardownDoesNotStrand ==
    /\ [][\A f \in Frames :
             (Returning(f) /\ fr[f].path = "spoof") =>
                 mnt_flags'[fr[f].dest_mnt] = ri_data[fr[f].ri].original_flags]_vars
    /\ []((exit_state.done /\ Quiescent) => SharedAsAtBoot)

\* C22 (as stated). Eventual restoration, every invocation that was called
\* running on: a mount whose shared bit the mechanism cleared eventually has
\* it set again; and if from some point on the last call of
\* ksu_pause_mount_propagation is one with false, then from some point on
\* every mount that was shared before the mechanism touched it is shared.
C22_EventualRestoration ==
    /\ \A m \in Mounts :
          (HasBit(BootFlags[m], MNT_SHARED) /\ ~HasBit(mnt_flags[m], MNT_SHARED))
             ~> HasBit(mnt_flags[m], MNT_SHARED)
    /\ (<>[](last_pause = <<FALSE>>)) => <>[]SharedAsAtBoot

\* C23. Scope before bootstrap: while the latch is 0, an invocation that
\* holds an instance and has a non-null source and destination is never
\* bypassed for its source: entry logic goes on from the null test to the
\* test of the destination whatever the source's device name is and whether
\* or not a name has been captured, and with the destination's shared bit set
\* when tested it records spoofed = true and stores the flags with the shared
\* bit clear.
C23_ScopeBeforeBootstrap ==
    [][\A f \in Frames :
          /\ (pc[f] = "entry" /\ Step(f) /\ fr[f].source_mnt # NULL
                /\ fr[f].dest_mnt # NULL) => pc'[f] \in {"a_copy", "a_scope"}
          /\ (pc[f] = "a_copy" /\ Step(f)) => pc'[f] = "a_set"
          /\ (pc[f] = "a_set" /\ Step(f)) => pc'[f] = "a_scope"
          /\ (pc[f] = "a_scope" /\ Step(f) /\ ksu_zygote_started = 0) =>
                 pc'[f] = "e_check" /\ fr'[f].path # "scope"
          /\ (pc[f] = "e_check" /\ Step(f)
                /\ HasBit(mnt_flags[fr[f].dest_mnt], MNT_SHARED)) => pc'[f] = "e_capture"
          /\ (pc[f] = "e_capture" /\ Step(f)) =>
                 /\ pc'[f] = "e_load"
                 /\ ri_data'[fr[f].ri].spoofed
                 /\ ri_data'[fr[f].ri].dest_mnt = fr[f].dest_mnt
          /\ (pc[f] = "e_load" /\ Step(f)) => pc'[f] = "e_store"
          /\ (pc[f] = "e_store" /\ Step(f)) =>
                 /\ pc'[f] = "body"
                 /\ ri_data'[fr[f].ri].spoofed
                 /\ ~HasBit(mnt_flags'[fr[f].dest_mnt], MNT_SHARED)]_vars

\* C23 witness: the latch is 0 and no name has been captured; an invocation
\* whose source has no device name has spoofed the shared mount m1, and one
\* whose source is not a loop device is past the scope test.
C23_Witness ==
    /\ ksu_zygote_started = 0 /\ ksu_modules_devname_initialized = 0
    /\ \E f, g \in Frames :
          /\ pc[f] = "body" /\ fr[f].path = "spoof" /\ fr[f].source_mnt = "m5"
          /\ fr[f].dest_mnt = "m1" /\ ri_data[fr[f].ri].spoofed
          /\ pc[g] \in {"e_check", "e_capture", "e_load", "e_store"}
          /\ fr[g].source_mnt = "m2"
    /\ ~HasBit(mnt_flags["m1"], MNT_SHARED)

====
